---- MODULE Spec2Model ----
(***************************************************************************)
(* A model of the DBMS GraphQL service: the typed value/column model of    *)
(* graphene_models.py (Column, Row, Table, Database, table difference) and *)
(* the request handlers of graphql_app.py working on the module-level      *)
(* `databases` registry.                                                   *)
(*                                                                         *)
(* Python objects are records; an object's class is its `cls` field where  *)
(* the code tests it (isinstance, dataclass __eq__).  A Python dict is an  *)
(* insertion-ordered sequence of [k, v] entries.  An Optional field is     *)
(* None (the empty sequence) or Some(x) (a one-element sequence).          *)
(***************************************************************************)
EXTENDS Integers, Sequences, FiniteSets, TLC

VARIABLES databases, request, response, issued, calls, interleaved

vars == <<databases, request, response, issued, calls, interleaved>>

(***************************************************************************)
(* Bounds of the exploration.                                              *)
(***************************************************************************)
\* at most MaxTables table ids are allocated by one Database
MaxTables == 2
\* at most MaxRows row ids are allocated by the tables of the store together
MaxRows == 3

(***************************************************************************)
(* Optional values and insertion-ordered dicts.                            *)
(***************************************************************************)
None == <<>>
Some(x) == <<x>>
Get(o) == o[1]

DictKeys(d) == {d[i].k : i \in DOMAIN d}
DictHas(d, key) == \E i \in DOMAIN d : d[i].k = key
DictIndex(d, key) == CHOOSE i \in DOMAIN d : d[i].k = key
DictGet(d, key) == d[DictIndex(d, key)].v
\* d[key] = value : a new key goes to the end, an old key keeps its place
DictSet(d, key, value) ==
    IF DictHas(d, key)
      THEN [d EXCEPT ![DictIndex(d, key)] = [k |-> key, v |-> value]]
      ELSE Append(d, [k |-> key, v |-> value])
\* del d[key]
DictDel(d, key) == SelectSeq(d, LAMBDA e : e.k # key)
\* d.values()
DictValues(d) == [i \in DOMAIN d |-> d[i].v]

(***************************************************************************)
(* Values.  Reals are modelled by the integers they are equal to; the      *)
(* class keeps IntegerValue(1) and RealValue(1.0) apart.                   *)
(***************************************************************************)
ColorValue(r, g, b) == [cls |-> "ColorValue", r |-> r, g |-> g, b |-> b]
IntegerValue(i) == [cls |-> "IntegerValue", integer |-> i]
RealValue(x) == [cls |-> "RealValue", real |-> x]
StringValue(s) == [cls |-> "StringValue", string |-> s]

\* graphene gives an ObjectType the __eq__ of a dataclass: equal iff the two
\* objects have the same class and equal fields
ObjectEq(a, b) == a.cls = b.cls /\ a = b

\* list.__eq__ on two lists of objects
ListEq(xs, ys) ==
    /\ Len(xs) = Len(ys)
    /\ \A i \in 1..Len(xs) : ObjectEq(xs[i], ys[i])

InputValue(integer, real, string, r, g, b) ==
    [cls |-> "InputValue", integer |-> integer, real |-> real,
     string |-> string, r |-> r, g |-> g, b |-> b]

\* InputValue.to_value: [raised, value]
to_value(self) ==
    IF self.integer # None THEN
        IF self.real = None /\ self.string = None /\ self.r = None
           /\ self.g = None /\ self.b = None
          THEN [raised |-> "", value |-> IntegerValue(Get(self.integer))]
          ELSE [raised |-> "AssertionError", value |-> None]
    ELSE IF self.real # None THEN
        IF self.string = None /\ self.r = None /\ self.g = None /\ self.b = None
          THEN [raised |-> "", value |-> RealValue(Get(self.real))]
          ELSE [raised |-> "AssertionError", value |-> None]
    ELSE IF self.string # None THEN
        IF self.r = None /\ self.g = None /\ self.b = None
          THEN [raised |-> "", value |-> StringValue(Get(self.string))]
          ELSE [raised |-> "AssertionError", value |-> None]
    ELSE IF self.r # None /\ self.g # None /\ self.b # None THEN
        [raised |-> "", value |-> ColorValue(Get(self.r), Get(self.g), Get(self.b))]
    ELSE [raised |-> "GraphQLError", value |-> None]

(***************************************************************************)
(* Columns.                                                                *)
(***************************************************************************)
Type == {"Integer", "Real", "Char", "String", "Color", "ColorInvl"}

ColumnFields(name, type, r_min, r_max, g_min, g_max, b_min, b_max) ==
    [cls |-> "Column", name |-> name, type |-> type,
     r_min |-> r_min, r_max |-> r_max, g_min |-> g_min, g_max |-> g_max,
     b_min |-> b_min, b_max |-> b_max]

\* (mutant) the order of min and max is not looked at
check_unordered(self) ==
    IF self.type = "ColorInvl"
      THEN None \notin {self.r_min, self.r_max, self.g_min, self.g_max,
                        self.b_min, self.b_max}
      ELSE /\ self.r_min = None /\ self.r_max = None
           /\ self.g_min = None /\ self.g_max = None
           /\ self.b_min = None /\ self.b_max = None

\* Column.check: TRUE iff it raises no ValueError
check(self) ==
    IF self.type = "ColorInvl"
      THEN /\ None \notin {self.r_min, self.r_max, self.g_min, self.g_max,
                           self.b_min, self.b_max}
           /\ ~(Get(self.r_min) > Get(self.r_max))
           /\ ~(Get(self.g_min) > Get(self.g_max))
           /\ ~(Get(self.b_min) > Get(self.b_max))
      ELSE /\ self.r_min = None /\ self.r_max = None
           /\ self.g_min = None /\ self.g_max = None
           /\ self.b_min = None /\ self.b_max = None

\* Column(**kwargs): [raised, column]
Column(kwargs) ==
    LET self == ColumnFields(kwargs.name, kwargs.type, kwargs.r_min, kwargs.r_max,
                             kwargs.g_min, kwargs.g_max, kwargs.b_min, kwargs.b_max)
    IN IF check(self) THEN [raised |-> "", column |-> self]
                      ELSE [raised |-> "ValueError", column |-> None]

\* (mutant) the three channels are held against the R bounds
check_value_r_bounds(self, value) ==
    IF self.type = "Integer" THEN value.cls = "IntegerValue"
    ELSE IF self.type = "Real" THEN value.cls = "IntegerValue" \/ value.cls = "RealValue"
    ELSE IF self.type = "Char" THEN value.cls = "StringValue" /\ Len(value.string) = 1
    ELSE IF self.type = "String" THEN value.cls = "StringValue"
    ELSE IF self.type = "Color" THEN value.cls = "ColorValue"
    ELSE IF self.type = "ColorInvl" THEN
        /\ value.cls = "ColorValue"
        /\ Get(self.r_min) <= value.r /\ value.r <= Get(self.r_max)
        /\ Get(self.r_min) <= value.g /\ value.g <= Get(self.r_max)
        /\ Get(self.r_min) <= value.b /\ value.b <= Get(self.r_max)
    ELSE FALSE

\* Column.check_value: TRUE iff no assertion fails (no ValueError is raised)
check_value(self, value) ==
    IF self.type = "Integer" THEN value.cls = "IntegerValue"
    ELSE IF self.type = "Real" THEN value.cls = "IntegerValue" \/ value.cls = "RealValue"
    ELSE IF self.type = "Char" THEN value.cls = "StringValue" /\ Len(value.string) = 1
    ELSE IF self.type = "String" THEN value.cls = "StringValue"
    ELSE IF self.type = "Color" THEN value.cls = "ColorValue"
    ELSE IF self.type = "ColorInvl" THEN
        /\ value.cls = "ColorValue"
        /\ Get(self.r_min) <= value.r /\ value.r <= Get(self.r_max)
        /\ Get(self.g_min) <= value.g /\ value.g <= Get(self.g_max)
        /\ Get(self.b_min) <= value.b /\ value.b <= Get(self.b_max)
    ELSE FALSE

\* Column.get_type: the G and B bounds of the copy are the R bounds of self
get_type(self, name) ==
    Column([name |-> name, type |-> self.type,
            r_min |-> self.r_min, r_max |-> self.r_max,
            g_min |-> self.r_min, g_max |-> self.r_max,
            b_min |-> self.r_min, b_max |-> self.r_max]).column

(***************************************************************************)
(* Exceptions: the class and the fixed part of the message.                *)
(***************************************************************************)
NoError == [exc |-> "", msg |-> ""]
Raise(exc, msg) == [exc |-> exc, msg |-> msg]

(***************************************************************************)
(* Row, Table, TableDifference.                                            *)
(***************************************************************************)
Row(id, cells) == [cls |-> "Row", id |-> id, cells |-> cells]

\* Table(id=, name=, columns=): the graphene field `rows` is not given and
\* stays None; __init__ adds the private dict and the counter
Table(id, name, columns) ==
    [cls |-> "Table", id |-> id, name |-> name, columns |-> columns, rows |-> None,
     _rows |-> <<>>, _next_id |-> 0]

\* the first column whose check_value rejects its cell, 0 if there is none
FirstRejected(columns, cells) ==
    IF \E i \in 1..Len(columns) : ~check_value(columns[i], cells[i])
      THEN CHOOSE i \in 1..Len(columns) :
             /\ ~check_value(columns[i], cells[i])
             /\ \A j \in 1..(i - 1) : check_value(columns[j], cells[j])
      ELSE 0

\* (mutant) the id of a new row is the number of rows stored
add_row_id_from_count(self, cells) ==
    IF Len(cells) # Len(self.columns) THEN
        [error |-> Raise("ValueError", "Row length must be the same as number of columns"),
         self |-> self, ret |-> None]
    ELSE IF FirstRejected(self.columns, cells) # 0 THEN
        [error |-> Raise("ValueError", "expected but value found"),
         self |-> self, ret |-> None]
    ELSE
        LET row == Row(Len(self._rows), cells)
        IN [error |-> NoError,
            self |-> [self EXCEPT !._rows = DictSet(self._rows, Len(self._rows), row),
                                  !._next_id = self._next_id + 1],
            ret |-> row]

\* (mutant) only the number of cells is checked
add_row_unvalidated(self, cells) ==
    IF Len(cells) # Len(self.columns) THEN
        [error |-> Raise("ValueError", "Row length must be the same as number of columns"),
         self |-> self, ret |-> None]
    ELSE
        LET row == Row(self._next_id, cells)
        IN [error |-> NoError,
            self |-> [self EXCEPT !._rows = DictSet(self._rows, self._next_id, row),
                                  !._next_id = self._next_id + 1],
            ret |-> row]

\* (mutant) the row is stored before its cells are validated
add_row_store_first(self, cells) ==
    LET row == Row(self._next_id, cells)
        stored == [self EXCEPT !._rows = DictSet(self._rows, self._next_id, row),
                               !._next_id = self._next_id + 1]
    IN IF Len(cells) # Len(self.columns) THEN
           [error |-> Raise("ValueError", "Row length must be the same as number of columns"),
            self |-> self, ret |-> None]
       ELSE IF FirstRejected(self.columns, cells) # 0 THEN
           [error |-> Raise("ValueError", "expected but value found"),
            self |-> stored, ret |-> None]
       ELSE [error |-> NoError, self |-> stored, ret |-> row]

\* Table.add_row: [error, self, ret]
add_row(self, cells) ==
    IF Len(cells) # Len(self.columns) THEN
        [error |-> Raise("ValueError", "Row length must be the same as number of columns"),
         self |-> self, ret |-> None]
    ELSE IF FirstRejected(self.columns, cells) # 0 THEN
        [error |-> Raise("ValueError", "expected but value found"),
         self |-> self, ret |-> None]
    ELSE
        LET row == Row(self._next_id, cells)
        IN [error |-> NoError,
            self |-> [self EXCEPT !._rows = DictSet(self._rows, self._next_id, row),
                                  !._next_id = self._next_id + 1],
            ret |-> row]

\* (mutant) the row inserted last is removed, whatever its id
remove_row_last(self, id) ==
    IF DictHas(self._rows, id)
      THEN [self EXCEPT !._rows = SubSeq(self._rows, 1, Len(self._rows) - 1)]
      ELSE self

\* Table.add_row step by step, as a thread that can be preempted between
\* statements runs it.  First the checks and `row = Row(id=self._next_id,
\* cells=cells)`: [error, row]
add_row_build(self, cells) ==
    IF Len(cells) # Len(self.columns) THEN
        [error |-> Raise("ValueError", "Row length must be the same as number of columns"),
         row |-> None]
    ELSE IF FirstRejected(self.columns, cells) # 0 THEN
        [error |-> Raise("ValueError", "expected but value found"), row |-> None]
    ELSE [error |-> NoError, row |-> Some(Row(self._next_id, cells))]

\* then `self._rows[self._next_id] = row`, with _next_id as it is by now
add_row_store(self, row) ==
    [self EXCEPT !._rows = DictSet(self._rows, self._next_id, row)]

\* (mutant) the counter is left as it is
add_row_increment_skipped(self) == self

\* then `self._next_id += 1`
add_row_increment(self) == [self EXCEPT !._next_id = self._next_id + 1]

\* (mutant) the hole is filled with the row inserted last
remove_row_swap(self, id) ==
    IF DictHas(self._rows, id)
      THEN LET at == DictIndex(self._rows, id)
               last == Len(self._rows)
           IN [self EXCEPT !._rows =
                 SubSeq([self._rows EXCEPT ![at] = self._rows[last]], 1, last - 1)]
      ELSE self

\* Table.remove_row
remove_row(self, id) ==
    IF DictHas(self._rows, id)
      THEN [self EXCEPT !._rows = DictDel(self._rows, id)]
      ELSE self

\* (mutant) whole rows are compared, ids included
contains_row_with_id(self, row) ==
    \E i \in DOMAIN self._rows :
        row.id = self._rows[i].v.id /\ ListEq(row.cells, self._rows[i].v.cells)

\* (mutant) all() in place of any()
contains_row_all(self, row) ==
    \A i \in DOMAIN self._rows : ListEq(row.cells, self._rows[i].v.cells)

\* Table.contains_row
contains_row(self, row) ==
    \E i \in DOMAIN self._rows : ListEq(row.cells, self._rows[i].v.cells)

\* the loop of Table.__sub__ over left._rows.values(), from position i on
RECURSIVE SubRows(_, _, _)
SubRows(values, right, i) ==
    IF i > Len(values) THEN <<>>
    ELSE IF ~contains_row(right, values[i])
           THEN <<values[i]>> \o SubRows(values, right, i + 1)
           ELSE SubRows(values, right, i + 1)

TableDifference(left_table, right_table, columns, rows) ==
    [cls |-> "TableDifference", left_table |-> left_table,
     right_table |-> right_table, columns |-> columns, rows |-> rows]

\* zip(left.columns, right.columns)
Zip(xs, ys) ==
    [i \in 1..(IF Len(xs) < Len(ys) THEN Len(xs) ELSE Len(ys)) |-> <<xs[i], ys[i]>>]

\* Table.__sub__: [error, ret]
TableSub(left, right) ==
    LET pairs == Zip(left.columns, right.columns)
    IN IF Len(left.columns) # Len(right.columns) THEN
           [error |-> Raise("ValueError", "Table difference: tables have different column counts"),
            ret |-> None]
       ELSE IF \E i \in DOMAIN pairs :
                 ~ObjectEq(get_type(pairs[i][1], ""), get_type(pairs[i][2], "")) THEN
           [error |-> Raise("ValueError", "Table difference: tables have different column types"),
            ret |-> None]
       ELSE
           [error |-> NoError,
            ret |-> TableDifference(
                      left, right,
                      [i \in DOMAIN pairs |->
                         get_type(pairs[i][1],
                                  IF pairs[i][1].name = pairs[i][2].name
                                    THEN pairs[i][1].name
                                    ELSE "'" \o pairs[i][1].name \o "' / '"
                                             \o pairs[i][2].name \o "'")],
                      SubRows(DictValues(left._rows), right, 1))]

\* Table.resolve_rows: the rows in the iteration order of the dict
resolve_rows(root) == DictValues(root._rows)

\* Table.resolve_get_row_by_id: the row, or None
resolve_get_row_by_id(root, row_id) ==
    IF DictHas(root._rows, row_id) THEN Some(DictGet(root._rows, row_id)) ELSE None

(***************************************************************************)
(* Database.                                                               *)
(***************************************************************************)
\* Database(name=): the graphene field `tables` is not given and stays None
Database(name) ==
    [cls |-> "Database", name |-> name, tables |-> None, _tables |-> <<>>, _next_id |-> 0]

\* Database.add_table: [self, ret]
add_table(self, name, columns) ==
    LET table == Table(self._next_id, name, columns)
    IN [self |-> [self EXCEPT !._tables = DictSet(self._tables, self._next_id, table),
                              !._next_id = self._next_id + 1],
        ret |-> table]

\* Database.remove_table reads the graphene field `tables`, not the dict
\* `_tables`: `id in None` raises TypeError; were the field a list of tables,
\* an int would equal none of its elements and nothing would be deleted
remove_table(self, id) ==
    IF self.tables = None
      THEN [error |-> Raise("TypeError", "argument of type 'NoneType' is not iterable"),
            self |-> self]
      ELSE [error |-> NoError, self |-> self]

\* Database.resolve_get_table_by_id: the table, or None
resolve_get_table_by_id(root, table_id) ==
    IF DictHas(root._tables, table_id) THEN Some(DictGet(root._tables, table_id)) ELSE None

\* Database.resolve_table_difference: [error, ret]
resolve_table_difference(root, left_table_id, right_table_id) ==
    IF ~DictHas(root._tables, left_table_id) \/ ~DictHas(root._tables, right_table_id)
      THEN [error |-> Raise("GraphQLError", "Table not found"), ret |-> None]
      ELSE LET sub == TableSub(DictGet(root._tables, left_table_id),
                               DictGet(root._tables, right_table_id))
           IN IF sub.error.exc = "ValueError"
                THEN [error |-> Raise("GraphQLError", sub.error.msg), ret |-> None]
                ELSE sub

(***************************************************************************)
(* graphql_app.py: lookups.  Each gives [error, ret].                      *)
(***************************************************************************)
_get_database(dbs, database_name) ==
    IF DictHas(dbs, database_name)
      THEN [error |-> NoError, ret |-> DictGet(dbs, database_name)]
      ELSE [error |-> Raise("GraphQLError", "Cannot find database"), ret |-> None]

_get_table(dbs, database_name, table_id) ==
    LET database == _get_database(dbs, database_name)
    IN IF database.error # NoError THEN database
       ELSE LET table == resolve_get_table_by_id(database.ret, table_id)
            IN IF table = None
                 THEN [error |-> Raise("GraphQLError", "Database doesn't contain table"),
                       ret |-> None]
                 ELSE [error |-> NoError, ret |-> Get(table)]

_get_row(dbs, database_name, table_id, row_id) ==
    LET table == _get_table(dbs, database_name, table_id)
    IN IF table.error # NoError THEN table
       ELSE LET row == resolve_get_row_by_id(table.ret, row_id)
            IN IF row = None
                 THEN [error |-> Raise("GraphQLError", "Table doesn't contain row"),
                       ret |-> None]
                 ELSE [error |-> NoError, ret |-> Get(row)]

\* the objects are mutated in place: the store with table `table` in place of
\* the one with its id
PutTable(dbs, database_name, table) ==
    LET database == DictGet(dbs, database_name)
    IN DictSet(dbs, database_name,
               [database EXCEPT !._tables = DictSet(database._tables, table.id, table)])

\* DeleteDatabase(true=True), DeleteTable(true=True)
Deleted(cls) == [cls |-> cls, true |-> TRUE]

\* a request that fails: the registry is left as it is
Fail(dbs, error) == [databases |-> dbs, error |-> error, ret |-> None]

(***************************************************************************)
(* graphql_app.py: the mutations and the difference query.  Each gives     *)
(* [databases, error, ret]: the registry after the call, the exception     *)
(* that ended it (NoError if none) and the value returned.                 *)
(***************************************************************************)
\* (mutant) the name is not looked up first
CreateDatabase_mutate_overwrite(dbs, database_name) ==
    [databases |-> DictSet(dbs, database_name, Database(database_name)),
     error |-> NoError, ret |-> Database(database_name)]

CreateDatabase_mutate(dbs, database_name) ==
    IF DictHas(dbs, database_name)
      THEN Fail(dbs, Raise("GraphQLError", "Database already exists"))
      ELSE [databases |-> DictSet(dbs, database_name, Database(database_name)),
            error |-> NoError, ret |-> Database(database_name)]

DeleteDatabase_mutate(dbs, database_name) ==
    LET database == _get_database(dbs, database_name)
    IN IF database.error # NoError THEN Fail(dbs, database.error)
       ELSE [databases |-> DictDel(dbs, database_name), error |-> NoError,
             ret |-> Deleted("DeleteDatabase")]

\* [Column(**column.__dict__) for column in columns]: [raised, columns]
Columns(columns) ==
    IF \E i \in DOMAIN columns : Column(columns[i]).raised # ""
      THEN [raised |-> "ValueError", columns |-> None]
      ELSE [raised |-> "", columns |-> [i \in DOMAIN columns |-> Column(columns[i]).column]]

\* (mutant) the table id is taken before the columns are built
CreateTable_mutate_reserve_id(dbs, database_name, table_name, columns) ==
    LET database == _get_database(dbs, database_name)
        built == Columns(columns)
    IN IF database.error # NoError THEN Fail(dbs, database.error)
       ELSE IF built.raised # "" THEN
           [databases |-> DictSet(dbs, database_name,
                                  [database.ret EXCEPT !._next_id = @ + 1]),
            error |-> Raise("ValueError", "Column: fields must (not) be provided"),
            ret |-> None]
       ELSE LET added == add_table(database.ret, table_name, built.columns)
            IN [databases |-> DictSet(dbs, database_name, added.self),
                error |-> NoError, ret |-> added.ret]

CreateTable_mutate(dbs, database_name, table_name, columns) ==
    LET database == _get_database(dbs, database_name)
        built == Columns(columns)
    IN IF database.error # NoError THEN Fail(dbs, database.error)
       ELSE IF built.raised # "" THEN
           Fail(dbs, Raise("ValueError", "Column: fields must (not) be provided"))
       ELSE LET added == add_table(database.ret, table_name, built.columns)
            IN [databases |-> DictSet(dbs, database_name, added.self),
                error |-> NoError, ret |-> added.ret]

DeleteTable_mutate(dbs, database_name, table_id) ==
    LET table == _get_table(dbs, database_name, table_id)
    IN IF table.error # NoError THEN Fail(dbs, table.error)
       ELSE LET removed == remove_table(DictGet(dbs, database_name), table_id)
            IN IF removed.error # NoError
                 THEN [databases |-> DictSet(dbs, database_name, removed.self),
                       error |-> removed.error, ret |-> None]
                 ELSE [databases |-> DictSet(dbs, database_name, removed.self),
                       error |-> NoError, ret |-> Deleted("DeleteTable")]

\* [cell.to_value() for cell in cells]: [raised, values]
Values(cells) ==
    IF \E i \in DOMAIN cells : to_value(cells[i]).raised # ""
      THEN [raised |-> to_value(cells[CHOOSE i \in DOMAIN cells :
                                        /\ to_value(cells[i]).raised # ""
                                        /\ \A j \in 1..(i - 1) :
                                             to_value(cells[j]).raised = ""]).raised,
            values |-> None]
      ELSE [raised |-> "", values |-> [i \in DOMAIN cells |-> to_value(cells[i]).value]]

CreateRow_mutate(dbs, database_name, table_id, cells) ==
    LET table == _get_table(dbs, database_name, table_id)
        values == Values(cells)
    IN IF table.error # NoError THEN Fail(dbs, table.error)
       ELSE IF values.raised # "" THEN
           Fail(dbs, Raise(values.raised, "Cannot parse InputValue"))
       ELSE LET added == add_row(table.ret, values.values)
            IN IF added.error # NoError
                 THEN [databases |-> PutTable(dbs, database_name, added.self),
                       error |-> Raise("GraphQLError", added.error.msg), ret |-> None]
                 ELSE [databases |-> PutTable(dbs, database_name, added.self),
                       error |-> NoError, ret |-> added.ret]

\* (mutant) the table is looked up, the row is not
DeleteRow_mutate_unchecked(dbs, database_name, table_id, row_id) ==
    LET table == _get_table(dbs, database_name, table_id)
    IN IF table.error # NoError THEN Fail(dbs, table.error)
       ELSE [databases |-> PutTable(dbs, database_name, remove_row(table.ret, row_id)),
             error |-> NoError, ret |-> Deleted("DeleteTable")]

DeleteRow_mutate(dbs, database_name, table_id, row_id) ==
    LET row == _get_row(dbs, database_name, table_id, row_id)
    IN IF row.error # NoError THEN Fail(dbs, row.error)
       ELSE [databases |->
                PutTable(dbs, database_name,
                         remove_row(_get_table(dbs, database_name, table_id).ret, row_id)),
             error |-> NoError, ret |-> Deleted("DeleteTable")]

\* the position list[i] denotes in a Python list of length n (0 if IndexError)
ListIndex(n, i) ==
    IF 0 <= i /\ i < n THEN i + 1
    ELSE IF i < 0 /\ -n <= i THEN n + i + 1
    ELSE 0

\* check_value is handed the InputValue itself, not value.to_value()
UpdateCellValue_mutate(dbs, database_name, table_id, row_id, column_id, value) ==
    LET table == _get_table(dbs, database_name, table_id)
        row == _get_row(dbs, database_name, table_id, row_id)
    IN IF table.error # NoError THEN Fail(dbs, table.error)
       ELSE IF row.error # NoError THEN Fail(dbs, row.error)
       ELSE IF column_id >= Len(table.ret.columns) THEN
           Fail(dbs, Raise("GraphQLError", "Table doesn't contain column"))
       ELSE LET at == ListIndex(Len(table.ret.columns), column_id)
            IN IF at = 0 THEN Fail(dbs, Raise("IndexError", "list index out of range"))
               ELSE IF ~check_value(table.ret.columns[at], value) THEN
                   Fail(dbs, Raise("GraphQLError", "expected but value found"))
               ELSE IF to_value(value).raised # "" THEN
                   Fail(dbs, Raise(to_value(value).raised, "Cannot parse InputValue"))
               ELSE LET updated == [row.ret EXCEPT !.cells[at] = to_value(value).value]
                    IN [databases |->
                           PutTable(dbs, database_name,
                                    [table.ret EXCEPT
                                       !._rows = DictSet(table.ret._rows, row_id, updated)]),
                        error |-> NoError, ret |-> updated]

\* query { getDatabaseByName(databaseName:) { tableDifference(...) } }:
\* resolve_get_database_by_name gives None for an unknown name, and then
\* the difference is not resolved at all
\* (mutant) the left table keeps the rows of the difference only
TableDifference_query_in_place(dbs, database_name, left_table_id, right_table_id) ==
    LET database == _get_database(dbs, database_name)
    IN IF database.error # NoError THEN [databases |-> dbs, error |-> NoError, ret |-> None]
       ELSE LET diff == resolve_table_difference(database.ret, left_table_id, right_table_id)
            IN IF diff.error # NoError
                 THEN [databases |-> dbs, error |-> diff.error, ret |-> diff.ret]
                 ELSE [databases |->
                          PutTable(dbs, database_name,
                                   [diff.ret.left_table EXCEPT
                                      !._rows = SelectSeq(@, LAMBDA e :
                                                  \E i \in DOMAIN diff.ret.rows :
                                                      diff.ret.rows[i].id = e.k)]),
                       error |-> NoError, ret |-> diff.ret]

TableDifference_query(dbs, database_name, left_table_id, right_table_id) ==
    LET database == _get_database(dbs, database_name)
    IN IF database.error # NoError THEN [databases |-> dbs, error |-> NoError, ret |-> None]
       ELSE LET diff == resolve_table_difference(database.ret, left_table_id, right_table_id)
            IN [databases |-> dbs, error |-> diff.error, ret |-> diff.ret]

(***************************************************************************)
(* The requests the clients send: small sets of inputs.                    *)
(***************************************************************************)
DbNames == {"d"}
TableNames == {"t"}
TableIds == 0..(MaxTables - 1)
RowIds == 0..(MaxRows - 1)
ColumnIds == {-3, -1, 0, 2}

InputColumn(name, type, r_min, r_max, g_min, g_max, b_min, b_max) ==
    [name |-> name, type |-> type, r_min |-> r_min, r_max |-> r_max,
     g_min |-> g_min, g_max |-> g_max, b_min |-> b_min, b_max |-> b_max]

colReal == InputColumn("x", "Real", None, None, None, None, None, None)
colChar == InputColumn("c", "Char", None, None, None, None, None, None)
\* two ColorInvl columns with the same R range and different G ranges
colInvlA == InputColumn("a", "ColorInvl", Some(0), Some(1), Some(0), Some(1), Some(0), Some(1))
colInvlB == InputColumn("b", "ColorInvl", Some(0), Some(1), Some(0), Some(0), Some(0), Some(1))
\* column definitions that Column.check rejects
colNoGMax == InputColumn("a", "ColorInvl", Some(0), Some(1), Some(0), None, Some(0), Some(1))
colBMinAboveMax == InputColumn("a", "ColorInvl", Some(0), Some(1), Some(0), Some(1), Some(1), Some(0))
colRealRMin == InputColumn("x", "Real", Some(0), None, None, None, None, None)

ColumnLists ==
    { <<colReal>>, <<colInvlA, colChar>>, <<colInvlB, colChar>>,
      <<colNoGMax>>, <<colReal, colBMinAboveMax>>, <<colRealRMin>> }

inInteger(i) == InputValue(Some(i), None, None, None, None, None)
inReal(x) == InputValue(None, Some(x), None, None, None, None)
inString(s) == InputValue(None, None, Some(s), None, None, None)
inColor(r, g, b) == InputValue(None, None, None, Some(r), Some(g), Some(b))
\* inputs that are no one-of
inNothing == InputValue(None, None, None, None, None, None)
inIntegerAndReal == InputValue(Some(1), Some(1), None, None, None, None)

CellLists ==
    { <<inInteger(1)>>, <<inReal(1)>>, <<inString("a")>>,
      <<inColor(0, 0, 0), inString("a")>>, <<inColor(0, 1, 0), inString("a")>>,
      <<inColor(0, 1, 0), inString("ab")>>,
      <<inNothing>>, <<inIntegerAndReal>> }

CellInputs == { inInteger(1) }

(***************************************************************************)
(* The state: the registry `databases`; the request being answered and the *)
(* reply to it, until the reply is sent (the handlers are synchronous: one *)
(* request is handled from start to end, then its reply goes out); and     *)
(* (history) the ids each Database and each Table has handed out since it  *)
(* was constructed.  `calls` holds the add_row calls that threads have in  *)
(* progress step by step, and (history) `interleaved` whether two of them  *)
(* overlapped; the synchronous handlers leave both alone.                  *)
(***************************************************************************)
Idle == [op |-> ""]
NoReply == [error |-> NoError, ret |-> None]

NothingIssued ==
    [tables |-> [n \in DbNames |-> <<>>],
     rows |-> [key \in DbNames \X TableIds |-> <<>>]]

Init ==
    /\ databases = <<>>
    /\ request = Idle
    /\ response = NoReply
    /\ issued = NothingIssued
    /\ calls = <<>>
    /\ interleaved = FALSE

\* one request handled: `out` is what its handler gives
Handle(req, out) ==
    /\ databases' = out.databases
    /\ request' = req
    /\ response' = [error |-> out.error, ret |-> out.ret]
    /\ UNCHANGED <<calls, interleaved>>

RECURSIVE SumNextIds(_)
SumNextIds(d) ==
    IF d = <<>> THEN 0 ELSE Head(d).v._next_id + SumNextIds(Tail(d))

RECURSIVE AllocatedRows(_)
AllocatedRows(dbs) ==
    IF dbs = <<>> THEN 0 ELSE SumNextIds(Head(dbs).v._tables) + AllocatedRows(Tail(dbs))

CreateDatabase(database_name) ==
    /\ request = Idle
    /\ LET out == CreateDatabase_mutate(databases, database_name)
       IN /\ Handle([op |-> "createDatabase", database_name |-> database_name], out)
          /\ issued' = IF out.error = NoError
                         THEN [tables |-> [issued.tables EXCEPT ![database_name] = <<>>],
                               rows |-> [key \in DbNames \X TableIds |->
                                           IF key[1] = database_name THEN <<>>
                                                                     ELSE issued.rows[key]]]
                         ELSE issued

DeleteDatabase(database_name) ==
    /\ request = Idle
    /\ LET out == DeleteDatabase_mutate(databases, database_name)
       IN /\ Handle([op |-> "deleteDatabase", database_name |-> database_name], out)
          /\ UNCHANGED issued

CreateTable(database_name, table_name, columns) ==
    /\ request = Idle
    /\ LET out == CreateTable_mutate(databases, database_name, table_name, columns)
       IN /\ out.error = NoError => out.ret.id < MaxTables
          /\ Handle([op |-> "createTable", database_name |-> database_name,
                     table_name |-> table_name, columns |-> columns], out)
          /\ issued' = IF out.error = NoError
                         THEN [issued EXCEPT !.tables[database_name] = Append(@, out.ret.id)]
                         ELSE issued

DeleteTable(database_name, table_id) ==
    /\ request = Idle
    /\ LET out == DeleteTable_mutate(databases, database_name, table_id)
       IN /\ Handle([op |-> "deleteTable", database_name |-> database_name,
                     table_id |-> table_id], out)
          /\ UNCHANGED issued

CreateRow(database_name, table_id, cells) ==
    /\ request = Idle
    /\ LET out == CreateRow_mutate(databases, database_name, table_id, cells)
       IN /\ out.error = NoError => AllocatedRows(databases) < MaxRows
          /\ Handle([op |-> "createRow", database_name |-> database_name,
                     table_id |-> table_id, cells |-> cells], out)
          /\ issued' = IF out.error = NoError
                         THEN [issued EXCEPT !.rows[<<database_name, table_id>>] =
                                                Append(@, out.ret.id)]
                         ELSE issued

DeleteRow(database_name, table_id, row_id) ==
    /\ request = Idle
    /\ LET out == DeleteRow_mutate(databases, database_name, table_id, row_id)
       IN /\ Handle([op |-> "deleteRow", database_name |-> database_name,
                     table_id |-> table_id, row_id |-> row_id], out)
          /\ UNCHANGED issued

UpdateCellValue(database_name, table_id, row_id, column_id, value) ==
    /\ request = Idle
    /\ LET out == UpdateCellValue_mutate(databases, database_name, table_id, row_id,
                                    column_id, value)
       IN /\ Handle([op |-> "updateCellValue", database_name |-> database_name,
                     table_id |-> table_id, row_id |-> row_id, column_id |-> column_id,
                     value |-> value], out)
          /\ UNCHANGED issued

TableDifferenceQuery(database_name, left_table_id, right_table_id) ==
    /\ request = Idle
    /\ LET out == TableDifference_query(databases, database_name, left_table_id,
                                   right_table_id)
       IN /\ Handle([op |-> "tableDifference", database_name |-> database_name,
                     left_table_id |-> left_table_id, right_table_id |-> right_table_id], out)
          /\ UNCHANGED issued

\* the reply goes out; the next request can be handled
Respond ==
    /\ request # Idle
    /\ request' = Idle
    /\ response' = NoReply
    /\ UNCHANGED <<databases, issued, calls, interleaved>>

Next ==
    \/ \E n \in DbNames : CreateDatabase(n)
    \/ \E n \in DbNames : DeleteDatabase(n)
    \/ \E n \in DbNames, t \in TableNames, c \in ColumnLists : CreateTable(n, t, c)
    \/ \E n \in DbNames, t \in TableIds : DeleteTable(n, t)
    \/ \E n \in DbNames, t \in TableIds, c \in CellLists : CreateRow(n, t, c)
    \/ \E n \in DbNames, t \in TableIds, r \in RowIds : DeleteRow(n, t, r)
    \/ \E n \in DbNames, t \in TableIds, r \in RowIds, c \in ColumnIds, v \in CellInputs :
          UpdateCellValue(n, t, r, c, v)
    \/ \E n \in DbNames, l \in TableIds, r \in TableIds : TableDifferenceQuery(n, l, r)
    \/ Respond

Spec == Init /\ [][Next]_vars

(***************************************************************************)
(* Vocabulary of the properties.                                           *)
(***************************************************************************)
\* the failure classes of the interface, by the exceptions that stand for them
NotFound(error) ==
    /\ error.exc = "GraphQLError"
    /\ error.msg \in {"Cannot find database", "Database doesn't contain table",
                      "Table doesn't contain row", "Table doesn't contain column",
                      "Table not found"}
SchemaMismatch(error) ==
    /\ error.exc \in {"GraphQLError", "ValueError"}
    /\ error.msg \in {"Row length must be the same as number of columns",
                      "Table difference: tables have different column counts",
                      "Table difference: tables have different column types"}
TypeMismatch(error) ==
    /\ error.exc \in {"GraphQLError", "ValueError"}
    /\ error.msg = "expected but value found"

HasDatabase(dbs, n) == \E i \in DOMAIN dbs : dbs[i].k = n
DatabaseOf(dbs, n) == dbs[CHOOSE i \in DOMAIN dbs : dbs[i].k = n].v
HasTable(dbs, n, t) ==
    HasDatabase(dbs, n) /\ \E i \in DOMAIN DatabaseOf(dbs, n)._tables :
                              DatabaseOf(dbs, n)._tables[i].k = t
TableOf(dbs, n, t) ==
    LET tables == DatabaseOf(dbs, n)._tables
    IN tables[CHOOSE i \in DOMAIN tables : tables[i].k = t].v
\* the rows of a table in its enumeration order, and their ids
RowsOf(table) == [i \in DOMAIN table._rows |-> table._rows[i].v]
RowIdsOf(table) == {table._rows[i].k : i \in DOMAIN table._rows}
HasRow(dbs, n, t, r) == HasTable(dbs, n, t) /\ r \in RowIdsOf(TableOf(dbs, n, t))
RowOf(table, r) == table._rows[CHOOSE i \in DOMAIN table._rows : table._rows[i].k = r].v

\* the reply in hand is a difference that was computed
DifferenceDone ==
    /\ request.op = "tableDifference"
    /\ response.error = NoError
    /\ response.ret # None

\* two columns have the same type signature: type tag and the six bounds
SameSignature(c, d) ==
    /\ c.type = d.type
    /\ c.r_min = d.r_min /\ c.r_max = d.r_max
    /\ c.g_min = d.g_min /\ c.g_max = d.g_max
    /\ c.b_min = d.b_min /\ c.b_max = d.b_max

(***************************************************************************)
(* C1: a computed difference A - B lists exactly the rows of A whose cell  *)
(* sequence equals (variant and value) the cell sequence of no row of B,   *)
(* in A's enumeration order, each with A's row id and cells.               *)
(***************************************************************************)
C1_LeftAntiDifference ==
    DifferenceDone =>
        LET A == TableOf(databases, request.database_name, request.left_table_id)
            B == TableOf(databases, request.database_name, request.right_table_id)
        IN response.ret.rows =
             SelectSeq(RowsOf(A),
                       LAMBDA a : \A j \in DOMAIN RowsOf(B) : a.cells # RowsOf(B)[j].cells)

\* A = [Integer 1, Real 1], B = [Integer 1] under a Real column: A - B is the
\* Real row alone, though it has the same number as B's Integer row
C1_Witness ==
    /\ DifferenceDone
    /\ request.left_table_id # request.right_table_id
    /\ LET A == TableOf(databases, request.database_name, request.left_table_id)
           B == TableOf(databases, request.database_name, request.right_table_id)
       IN /\ Len(RowsOf(A)) = 2 /\ Len(RowsOf(B)) = 1
          /\ RowsOf(B)[1].cells = <<IntegerValue(1)>>
          /\ Len(response.ret.rows) = 1
          /\ response.ret.rows[1] = RowsOf(A)[2]
          /\ response.ret.rows[1].cells = <<RealValue(1)>>

(***************************************************************************)
(* C2: a difference of two tables whose column counts differ, or whose     *)
(* columns differ at some position in type tag or in one of the six        *)
(* bounds, fails with SchemaMismatch.                                      *)
(***************************************************************************)
C2_SchemaGate ==
    (/\ request.op = "tableDifference"
     /\ HasTable(databases, request.database_name, request.left_table_id)
     /\ HasTable(databases, request.database_name, request.right_table_id)) =>
        LET l == TableOf(databases, request.database_name, request.left_table_id).columns
            r == TableOf(databases, request.database_name, request.right_table_id).columns
        IN (\/ Len(l) # Len(r)
            \/ \E i \in DOMAIN l : i \in DOMAIN r /\ ~SameSignature(l[i], r[i]))
           => SchemaMismatch(response.error)

(***************************************************************************)
(* C10: the difference of a table with itself succeeds and has no rows.    *)
(***************************************************************************)
C10_SelfDifferenceEmpty ==
    (/\ request.op = "tableDifference"
     /\ request.left_table_id = request.right_table_id
     /\ HasTable(databases, request.database_name, request.left_table_id)) =>
        /\ response.error = NoError
        /\ response.ret # None
        /\ response.ret.rows = <<>>

\* T - T asked of a table with a ColorInvl column and two rows
C10_Witness ==
    /\ request.op = "tableDifference"
    /\ request.left_table_id = request.right_table_id
    /\ HasTable(databases, request.database_name, request.left_table_id)
    /\ LET T == TableOf(databases, request.database_name, request.left_table_id)
       IN /\ T.columns[1].type = "ColorInvl"
          /\ Len(RowsOf(T)) = 2
          /\ RowsOf(T)[1].cells # RowsOf(T)[2].cells
    /\ response.error = NoError

(***************************************************************************)
(* Steps of the handlers, for the properties that compare the registry     *)
(* before and after a request.                                             *)
(***************************************************************************)
Handled(op) == request = Idle /\ request'.op = op

\* position of database n in the registry, of table t in a database
DatabaseAt(dbs, n) == CHOOSE i \in DOMAIN dbs : dbs[i].k = n
TableAt(db, t) == CHOOSE i \in DOMAIN db._tables : db._tables[i].k = t

\* dbs2 is dbs but for the table t of database n, which is T2 in dbs2
OnlyTableChanged(dbs, dbs2, n, t, T2) ==
    dbs2 = [dbs EXCEPT ![DatabaseAt(dbs, n)].v._tables[TableAt(DatabaseOf(dbs, n), t)].v = T2]

(***************************************************************************)
(* C3: an update-cell request naming an existing database, table and row,  *)
(* a column index in 0..len(columns)-1 and a value the column's validator  *)
(* accepts succeeds, replaces exactly that cell, returns the updated row   *)
(* and changes nothing else.                                               *)
(***************************************************************************)
C3_UpdateStep ==
    LET n == request'.database_name
        t == request'.table_id
        r == request'.row_id
        c == request'.column_id
        new == to_value(request'.value)
    IN (/\ Handled("updateCellValue")
        /\ HasRow(databases, n, t, r)
        /\ 0 <= c /\ c < Len(TableOf(databases, n, t).columns)
        /\ new.raised = ""
        /\ check_value(TableOf(databases, n, t).columns[c + 1], new.value))
       => LET T == TableOf(databases, n, t)
              updated == [RowOf(T, r) EXCEPT !.cells[c + 1] = new.value]
          IN /\ response'.error = NoError
             /\ response'.ret = updated
             /\ OnlyTableChanged(databases, databases', n, t,
                   [T EXCEPT !._rows = [i \in DOMAIN T._rows |->
                                          IF T._rows[i].k = r
                                            THEN [k |-> r, v |-> updated]
                                            ELSE T._rows[i]]])

C3_UpdateCellSucceeds == [][C3_UpdateStep]_vars

(***************************************************************************)
(* C4: a delete-table request naming an existing database and table id     *)
(* returns success and removes exactly that table; the other tables and    *)
(* the rest of the database are unchanged.                                 *)
(***************************************************************************)
C4_DeleteStep ==
    LET n == request'.database_name
        t == request'.table_id
    IN (Handled("deleteTable") /\ HasTable(databases, n, t))
       => LET db == DatabaseOf(databases, n)
          IN /\ response'.error = NoError
             /\ response'.ret.true
             /\ ~HasTable(databases', n, t)
             /\ databases' =
                  [databases EXCEPT ![DatabaseAt(databases, n)].v._tables =
                                       SelectSeq(db._tables, LAMBDA e : e.k # t)]

C4_DeleteTableRemoves == [][C4_DeleteStep]_vars

(***************************************************************************)
(* C5: add_row(C) on a table T either stores exactly one new row, with id  *)
(* the previous next_row_id and cells C, returns it and increments         *)
(* next_row_id by one, or reports an error and leaves the rows and         *)
(* next_row_id as they were; it fails exactly when len(C) is not the       *)
(* column count or a column's validator rejects its cell.                  *)
(***************************************************************************)
C5_AddRowStep ==
    LET n == request'.database_name
        t == request'.table_id
        parsed == Values(request'.cells)
    IN (/\ Handled("createRow")
        /\ HasTable(databases, n, t)
        /\ parsed.raised = "")
       => LET T == TableOf(databases, n, t)
              C == parsed.values
              row == [cls |-> "Row", id |-> T._next_id, cells |-> C]
          IN IF /\ Len(C) = Len(T.columns)
                /\ \A i \in DOMAIN C : check_value(T.columns[i], C[i])
               THEN /\ response'.error = NoError
                    /\ response'.ret = row
                    /\ OnlyTableChanged(databases, databases', n, t,
                          [T EXCEPT !._rows = Append(T._rows, [k |-> T._next_id, v |-> row]),
                                    !._next_id = T._next_id + 1])
               ELSE /\ response'.error # NoError
                    /\ response'.ret = None
                    /\ databases' = databases

C5_AtomicInsert == [][C5_AddRowStep]_vars

\* a create-row whose second cell is rejected, on a table that holds a row:
\* the table still has that one row and the same counter
C5_Witness ==
    /\ request.op = "createRow"
    /\ TypeMismatch(response.error)
    /\ HasTable(databases, request.database_name, request.table_id)
    /\ Len(request.cells) = 2
    /\ LET T == TableOf(databases, request.database_name, request.table_id)
       IN /\ check_value(T.columns[1], to_value(request.cells[1]).value)
          /\ Len(RowsOf(T)) = 1
          /\ T._next_id = 1

(***************************************************************************)
(* C6: the ids one Table hands out to its rows, and one Database to its    *)
(* tables, are strictly increasing in allocation order (so none is handed  *)
(* out twice, also not after the row that held it was removed), and every  *)
(* stored id is smaller than the owner's next-id counter.                  *)
(***************************************************************************)
StrictlyIncreasing(ids) == \A i, j \in DOMAIN ids : i < j => ids[i] < ids[j]

C6_IdsIncreasingNeverReused ==
    \A n \in DbNames : HasDatabase(databases, n) =>
        LET db == DatabaseOf(databases, n)
        IN /\ StrictlyIncreasing(issued.tables[n])
           /\ \A i \in DOMAIN issued.tables[n] : issued.tables[n][i] < db._next_id
           /\ \A i \in DOMAIN db._tables :
                LET T == db._tables[i].v
                    handed == issued.rows[<<n, db._tables[i].k>>]
                IN /\ T.id = db._tables[i].k
                   /\ T.id < db._next_id
                   /\ StrictlyIncreasing(handed)
                   /\ \A j \in DOMAIN handed : handed[j] < T._next_id
                   /\ \A j \in DOMAIN T._rows :
                        /\ T._rows[j].v.id = T._rows[j].k
                        /\ T._rows[j].k < T._next_id

\* a row is added after row 0 of its table was removed: it gets id 1
C6_Witness ==
    /\ request.op = "createRow"
    /\ response.error = NoError
    /\ response.ret.id = 1
    /\ RowIdsOf(TableOf(databases, request.database_name, request.table_id)) = {1}
    /\ issued.rows[<<request.database_name, request.table_id>>] = <<0, 1>>
    /\ issued.tables[request.database_name] = <<0, 1>>

(***************************************************************************)
(* C7: every stored row has as many cells as its table has columns, and    *)
(* each cell is accepted by the column at its position.                    *)
(***************************************************************************)
C7_RowsConform ==
    \A d \in DOMAIN databases :
      \A i \in DOMAIN databases[d].v._tables :
        LET T == databases[d].v._tables[i].v
        IN \A j \in DOMAIN T._rows :
             LET cells == T._rows[j].v.cells
             IN /\ Len(cells) = Len(T.columns)
                /\ \A c \in DOMAIN cells : check_value(T.columns[c], cells[c])

\* an update-cell request for a cell of a stored two-cell row was handled
C7_Witness ==
    /\ request.op = "updateCellValue"
    /\ HasRow(databases, request.database_name, request.table_id, request.row_id)
    /\ request.column_id = 0
    /\ LET T == TableOf(databases, request.database_name, request.table_id)
       IN /\ Len(T.columns) = 2
          /\ Len(RowOf(T, request.row_id).cells) = 2

(***************************************************************************)
(* C8: Database.remove_table(id) with an id the database does not contain  *)
(* raises no error and leaves the tables and the counter unchanged.        *)
(***************************************************************************)
C8_RemoveAbsentTableNoOp ==
    \A d \in DOMAIN databases : \A id \in 0..MaxTables :
        LET db == databases[d].v
        IN id \notin {db._tables[i].k : i \in DOMAIN db._tables} =>
             /\ remove_table(db, id).error = NoError
             /\ remove_table(db, id).self._tables = db._tables
             /\ remove_table(db, id).self._next_id = db._next_id

(***************************************************************************)
(* C9: Table.remove_row(id) removes exactly the row with that id when it   *)
(* is present and changes nothing when it is absent; next_row_id and the   *)
(* other rows are unchanged, and a second call changes nothing more.       *)
(***************************************************************************)
\* T2 is T without row r, all else the same
RowRemoved(T, T2, r) ==
    /\ RowIdsOf(T2) = RowIdsOf(T) \ {r}
    /\ Len(T2._rows) = Cardinality(RowIdsOf(T2))
    /\ \A k \in RowIdsOf(T2) : RowOf(T2, k) = RowOf(T, k)
    /\ T2._next_id = T._next_id
    /\ T2.columns = T.columns /\ T2.id = T.id /\ T2.name = T.name

C9_RemoveRowStep ==
    LET n == request'.database_name
        t == request'.table_id
        r == request'.row_id
    IN /\ (Handled("deleteRow") /\ HasTable(databases, n, t)) =>
            \* remove_row on the table as it was, for every id
            LET T == TableOf(databases, n, t)
            IN \A id \in 0..MaxRows :
                 /\ id \notin RowIdsOf(T) => remove_row(T, id) = T
                 /\ id \in RowIdsOf(T) =>
                      /\ RowRemoved(T, remove_row(T, id), id)
                      /\ remove_row(remove_row(T, id), id) = remove_row(T, id)
       /\ (Handled("deleteRow") /\ HasRow(databases, n, t, r)) =>
            \* the request removes the row it names
            /\ response'.error = NoError
            /\ HasTable(databases', n, t)
            /\ RowRemoved(TableOf(databases, n, t), TableOf(databases', n, t), r)
            /\ OnlyTableChanged(databases, databases', n, t, TableOf(databases', n, t))

C9_RemoveRow == [][C9_RemoveRowStep]_vars

\* row 0 of a table with rows 0 and 1 was deleted: row 1 and the counter stay
C9_Witness ==
    /\ request.op = "deleteRow"
    /\ response.error = NoError
    /\ request.row_id = 0
    /\ LET T == TableOf(databases, request.database_name, request.table_id)
       IN RowIdsOf(T) = {1} /\ T._next_id = 2

(***************************************************************************)
(* C11: in a computed difference the output column at each position has    *)
(* the type tag and the six bounds of the left table's column at that      *)
(* position, each channel its own; its name is the left name when the two  *)
(* names are equal and a label made of both names otherwise.               *)
(***************************************************************************)
C11_OutputColumnsKeepBounds ==
    DifferenceDone =>
        LET l == TableOf(databases, request.database_name, request.left_table_id).columns
            r == TableOf(databases, request.database_name, request.right_table_id).columns
            out == response.ret.columns
        IN /\ Len(out) = Len(l)
           /\ \A i \in DOMAIN out :
                /\ SameSignature(out[i], l[i])
                /\ out[i].name = IF l[i].name = r[i].name
                                   THEN l[i].name
                                   ELSE "'" \o l[i].name \o "' / '" \o r[i].name \o "'"

(***************************************************************************)
(* Column on its own: every combination of type and bounds is handed to    *)
(* Column(...), and every value to check_value of every column that can    *)
(* be constructed.                                                         *)
(***************************************************************************)
\* the bounds and the colour channels of these calls are None or 0..MaxChannel
MaxChannel == 1

Bounds == {None} \cup {Some(v) : v \in 0..MaxChannel}

ColumnKwargs ==
    [name : {"a"}, type : Type, r_min : Bounds, r_max : Bounds,
     g_min : Bounds, g_max : Bounds, b_min : Bounds, b_max : Bounds]

\* the columns that exist: those whose construction raised nothing
Constructed == {Column(kwargs).column : kwargs \in {k \in ColumnKwargs : Column(k).raised = ""}}

TestValues ==
    {IntegerValue(i) : i \in 0..1} \cup {RealValue(x) : x \in 0..1}
    \cup {StringValue(s) : s \in {"", "a", "ab"}}
    \cup {ColorValue(r, g, b) : r, g, b \in 0..MaxChannel}

\* Column(**kwargs)
ConstructColumn(kwargs) ==
    /\ request = Idle
    /\ request' = [op |-> "Column", kwargs |-> kwargs]
    /\ response' = [error |-> IF Column(kwargs).raised = ""
                                THEN NoError
                                ELSE Raise(Column(kwargs).raised,
                                           "Column: fields must (not) be provided"),
                    ret |-> Column(kwargs).column]
    /\ UNCHANGED <<databases, issued, calls, interleaved>>

\* column.check_value(value)
CheckValue(column, value) ==
    /\ request = Idle
    /\ request' = [op |-> "check_value", column |-> column, value |-> value]
    /\ response' = [error |-> IF check_value(column, value)
                                THEN NoError
                                ELSE Raise("ValueError", "expected but value found"),
                    ret |-> None]
    /\ UNCHANGED <<databases, issued, calls, interleaved>>

NextColumn ==
    \/ \E kwargs \in ColumnKwargs : ConstructColumn(kwargs)
    \/ \E column \in Constructed, value \in TestValues : CheckValue(column, value)
    \/ Respond

SpecColumn == Init /\ [][NextColumn]_vars

\* the failure class of an invalid column definition
ConfigError(error) == error.exc = "ValueError" /\ error.msg = "Column: fields must (not) be provided"

(***************************************************************************)
(* C12: constructing a ColorInvl column succeeds iff all six bounds are    *)
(* present and min <= max in each of the three channels; constructing a    *)
(* column of another type succeeds iff all six bounds are absent; every    *)
(* other construction fails with ConfigError.                              *)
(***************************************************************************)
C12_ColumnConstruction ==
    request.op = "Column" =>
        LET k == request.kwargs
            six == <<k.r_min, k.r_max, k.g_min, k.g_max, k.b_min, k.b_max>>
            valid == IF k.type = "ColorInvl"
                       THEN /\ \A i \in 1..6 : six[i] # None
                            /\ \A i \in {1, 3, 5} : six[i][1] <= six[i + 1][1]
                       ELSE \A i \in 1..6 : six[i] = None
        IN IF valid
             THEN /\ response.error = NoError
                  /\ response.ret.type = k.type /\ response.ret.name = k.name
                  /\ <<response.ret.r_min, response.ret.r_max, response.ret.g_min,
                       response.ret.g_max, response.ret.b_min, response.ret.b_max>> = six
             ELSE ConfigError(response.error) /\ response.ret = None

\* a ColorInvl column with all six bounds, the R and B ranges in order and
\* g_min above g_max, is refused
C12_Witness ==
    /\ request.op = "Column"
    /\ request.kwargs.type = "ColorInvl"
    /\ request.kwargs.r_min = Some(0) /\ request.kwargs.r_max = Some(1)
    /\ request.kwargs.g_min = Some(1) /\ request.kwargs.g_max = Some(0)
    /\ request.kwargs.b_min = Some(1) /\ request.kwargs.b_max = Some(1)
    /\ ConfigError(response.error)

(***************************************************************************)
(* C13: check_value accepts an Integer value in an Integer column, an      *)
(* Integer or Real value in a Real column, a String of exactly one         *)
(* character in a Char column, any String in a String column, any Color in *)
(* a Color column, and in a ColorInvl column a Color whose r, g and b lie  *)
(* each within its own channel's [min, max]; it rejects every other pair   *)
(* of column and value with TypeMismatch.                                  *)
(***************************************************************************)
C13_Validate ==
    request.op = "check_value" =>
        LET c == request.column
            v == request.value
            accepted ==
                \/ c.type = "Integer" /\ v \in {IntegerValue(i) : i \in 0..1}
                \/ c.type = "Real" /\ v \in {IntegerValue(i) : i \in 0..1}
                                            \cup {RealValue(x) : x \in 0..1}
                \/ c.type = "Char" /\ v = StringValue("a")
                \/ c.type = "String" /\ v \in {StringValue(""), StringValue("a"),
                                               StringValue("ab")}
                \/ c.type = "Color" /\ v.cls = "ColorValue"
                \/ /\ c.type = "ColorInvl" /\ v.cls = "ColorValue"
                   /\ v.r \in c.r_min[1]..c.r_max[1]
                   /\ v.g \in c.g_min[1]..c.g_max[1]
                   /\ v.b \in c.b_min[1]..c.b_max[1]
        IN IF accepted THEN response.error = NoError
                       ELSE TypeMismatch(response.error)

\* a Color inside the R and B ranges of a ColorInvl column and above its
\* narrower G range is rejected
C13_Witness ==
    /\ request.op = "check_value"
    /\ request.column.type = "ColorInvl"
    /\ request.column.r_min = Some(0) /\ request.column.r_max = Some(1)
    /\ request.column.g_min = Some(0) /\ request.column.g_max = Some(0)
    /\ request.column.b_min = Some(0) /\ request.column.b_max = Some(1)
    /\ request.value = ColorValue(1, 1, 1)
    /\ TypeMismatch(response.error)

(***************************************************************************)
(* C14: a create-database request with a name the registry holds fails     *)
(* with DuplicateName and leaves the registry, the database of that name   *)
(* with its tables and rows included, unchanged; with a new name it adds   *)
(* one empty database.  The registry never holds two databases of one      *)
(* name.                                                                   *)
(***************************************************************************)
DuplicateName(error) ==
    error.exc = "GraphQLError" /\ error.msg = "Database already exists"

C14_CreateDatabaseStep ==
    /\ Handled("createDatabase") =>
         LET n == request'.database_name
         IN IF HasDatabase(databases, n)
              THEN /\ DuplicateName(response'.error)
                   /\ response'.ret = None
                   /\ databases' = databases
              ELSE /\ response'.error = NoError
                   /\ Len(databases') = Len(databases) + 1
                   /\ SubSeq(databases', 1, Len(databases)) = databases
                   /\ LET new == databases'[Len(databases')]
                      IN /\ new.k = n /\ new.v.name = n
                         /\ new.v._tables = <<>> /\ new.v._next_id = 0
                         /\ response'.ret = new.v
    /\ \A i, j \in DOMAIN databases' : databases'[i].k = databases'[j].k => i = j

C14_CreateDatabase == [][C14_CreateDatabaseStep]_vars

\* a second create-database for the name of a database that holds a table
\* with a row is refused
C14_Witness ==
    /\ request.op = "createDatabase"
    /\ DuplicateName(response.error)
    /\ HasTable(databases, request.database_name, 0)
    /\ Len(RowsOf(TableOf(databases, request.database_name, 0))) = 1

(***************************************************************************)
(* C15: an update-cell request for an existing row whose column index      *)
(* denotes no column of the table (index >= number of columns, or          *)
(* negative) fails with NotFound, whatever the new value, and leaves the   *)
(* row unchanged.                                                          *)
(***************************************************************************)
C15_BadColumnStep ==
    LET n == request'.database_name
        t == request'.table_id
        r == request'.row_id
        c == request'.column_id
    IN (/\ Handled("updateCellValue")
        /\ HasRow(databases, n, t, r)
        /\ (c >= Len(TableOf(databases, n, t).columns) \/ c < 0))
       => /\ NotFound(response'.error)
          /\ databases' = databases

C15_BadColumnIndexNotFound == [][C15_BadColumnStep]_vars

(***************************************************************************)
(* C16: a delete-row request fails with NotFound when the database name,   *)
(* the table id or the row id is unknown, and the store is then unchanged; *)
(* when all three exist it returns success and removes exactly that row:   *)
(* the other rows of the table, their order and its next_row_id stay, and  *)
(* so does the rest of the store.                                          *)
(***************************************************************************)
C16_DeleteRowStep ==
    LET n == request'.database_name
        t == request'.table_id
        r == request'.row_id
    IN Handled("deleteRow") =>
         IF HasRow(databases, n, t, r)
           THEN LET T == TableOf(databases, n, t)
                IN /\ response'.error = NoError
                   /\ response'.ret.true = TRUE
                   /\ OnlyTableChanged(databases, databases', n, t,
                         [T EXCEPT !._rows = SelectSeq(T._rows, LAMBDA e : e.k # r)])
           ELSE /\ NotFound(response'.error)
                /\ response'.error.msg =
                     IF ~HasDatabase(databases, n) THEN "Cannot find database"
                     ELSE IF ~HasTable(databases, n, t) THEN "Database doesn't contain table"
                     ELSE "Table doesn't contain row"
                /\ response'.ret = None
                /\ databases' = databases

C16_DeleteRow == [][C16_DeleteRowStep]_vars

\* a delete-row for a row id the table handed out and no longer holds is
\* refused, and the table keeps its other row
C16_Witness ==
    /\ request.op = "deleteRow"
    /\ NotFound(response.error)
    /\ HasTable(databases, request.database_name, request.table_id)
    /\ LET T == TableOf(databases, request.database_name, request.table_id)
       IN /\ request.row_id < T._next_id
          /\ request.row_id \notin RowIdsOf(T)
          /\ Len(RowsOf(T)) = 1

(***************************************************************************)
(* C17: a table enumerates its rows, in the rows listing and as the        *)
(* iteration order of a difference, in the order in which they were        *)
(* inserted: the ids listed are the ids the table handed out, in that      *)
(* order, less the ids of the rows that are gone.  Removing a row          *)
(* therefore leaves the others in their relative order, and the listing    *)
(* is a function of the table's state.                                     *)
(***************************************************************************)
IdsOf(rows) == [i \in DOMAIN rows |-> rows[i].id]

C17_InsertionOrder ==
    /\ \A n \in DbNames, t \in TableIds : HasTable(databases, n, t) =>
         LET T == TableOf(databases, n, t)
         IN IdsOf(resolve_rows(T)) =
              SelectSeq(issued.rows[<<n, t>>], LAMBDA id : id \in RowIdsOf(T))
    /\ DifferenceDone =>
         LET listed == IdsOf(response.ret.rows)
         IN listed = SelectSeq(issued.rows[<<request.database_name, request.left_table_id>>],
                               LAMBDA id : id \in {listed[i] : i \in DOMAIN listed})

\* the first of three rows was deleted: the listing is row 1, then row 2
C17_Witness ==
    /\ request.op = "deleteRow"
    /\ response.error = NoError
    /\ request.row_id = 0
    /\ issued.rows[<<request.database_name, request.table_id>>] = <<0, 1, 2>>
    /\ IdsOf(resolve_rows(TableOf(databases, request.database_name, request.table_id)))
         = <<1, 2>>

(***************************************************************************)
(* C18: a create-table request fails exactly when the database is unknown  *)
(* or some column definition of the list, at whatever position, violates   *)
(* the range-presence rule; a failed request adds no table and leaves the  *)
(* database's tables and next_table_id as they were, and a successful one  *)
(* gets the id next_table_id had before it.                                *)
(***************************************************************************)
C18_CreateTableStep ==
    LET n == request'.database_name
        cols == request'.columns
    IN Handled("createTable") =>
         IF HasDatabase(databases, n) /\ \A i \in DOMAIN cols : Column(cols[i]).raised = ""
           THEN /\ response'.error = NoError
                /\ response'.ret.id = DatabaseOf(databases, n)._next_id
                /\ DatabaseOf(databases', n)._next_id = DatabaseOf(databases, n)._next_id + 1
                /\ DatabaseOf(databases', n)._tables =
                     Append(DatabaseOf(databases, n)._tables,
                            [k |-> response'.ret.id, v |-> response'.ret])
           ELSE /\ IF HasDatabase(databases, n) THEN ConfigError(response'.error)
                                                ELSE NotFound(response'.error)
                /\ response'.ret = None
                /\ databases' = databases

C18_FailedCreateTableAddsNothing == [][C18_CreateTableStep]_vars

\* a create-table whose first column definition is valid and whose second
\* is not was refused by a database that holds table 0: it still holds
\* that table alone, and its counter is still 1
C18_Witness ==
    /\ request.op = "createTable"
    /\ ConfigError(response.error)
    /\ Len(request.columns) = 2
    /\ Column(request.columns[1]).raised = ""
    /\ Column(request.columns[2]).raised # ""
    /\ HasDatabase(databases, request.database_name)
    /\ DictKeys(DatabaseOf(databases, request.database_name)._tables) = {0}
    /\ DatabaseOf(databases, request.database_name)._next_id = 1

(***************************************************************************)
(* C19: a table-difference request, whether it succeeds or fails with      *)
(* NotFound or SchemaMismatch, changes nothing in the store: the rows,     *)
(* columns and next_row_id of both tables, the database's tables and       *)
(* next_table_id and the registry are the same after it as before; a       *)
(* failed difference returns no columns and no rows.                       *)
(***************************************************************************)
C19_DifferenceStep ==
    Handled("tableDifference") =>
        /\ databases' = databases
        /\ response'.error # NoError =>
             /\ NotFound(response'.error) \/ SchemaMismatch(response'.error)
             /\ response'.ret = None
        /\ response'.ret # None =>
             /\ response'.ret.left_table =
                  TableOf(databases, request'.database_name, request'.left_table_id)
             /\ response'.ret.right_table =
                  TableOf(databases, request'.database_name, request'.right_table_id)

C19_DifferenceChangesNothing == [][C19_DifferenceStep]_vars

\* a difference that left out one of the two rows of its left table was
\* computed, and the left table still holds both
C19_Witness ==
    /\ DifferenceDone
    /\ Len(response.ret.rows) = 1
    /\ Len(RowsOf(TableOf(databases, request.database_name, request.left_table_id))) = 2

(***************************************************************************)
(* Threads in add_row: nothing in Table.add_row or in the handlers locks   *)
(* the table, so when requests are served by threads the statements of     *)
(* two add_row calls can alternate.  Each thread calls add_row on a table  *)
(* of the store, runs its three steps one at a time and returns.           *)
(***************************************************************************)
Threads == {1, 2}

NoCall == [pc |-> "idle"]

\* the stores the calls start from: one table with a Real column, holding
\* no row or one row
RaceStores ==
    LET created == CreateDatabase_mutate(<<>>, "d").databases
        empty == CreateTable_mutate(created, "d", "t", <<colReal>>).databases
    IN {empty, CreateRow_mutate(empty, "d", 0, <<inInteger(1)>>).databases}

RaceCells == {<<IntegerValue(1)>>, <<RealValue(1)>>, <<StringValue("a")>>}

InitRace ==
    /\ databases \in RaceStores
    /\ request = Idle
    /\ response = NoReply
    /\ issued = NothingIssued
    /\ calls = [th \in Threads |-> NoCall]
    /\ interleaved = FALSE

\* the calls that have built their row and not yet moved the counter
InAddRow == {th \in Threads : calls[th].pc \in {"store", "increment"}}

\* the checks and the construction of the row
AddRowBuild(th, n, t, cells) ==
    /\ calls[th].pc = "idle"
    /\ HasTable(databases, n, t)
    /\ TableOf(databases, n, t)._next_id + Cardinality(InAddRow) < MaxRows
    /\ LET built == add_row_build(TableOf(databases, n, t), cells)
       IN calls' = [calls EXCEPT ![th] =
            IF built.error # NoError
              THEN [pc |-> "done", database_name |-> n, table_id |-> t,
                    error |-> built.error, ret |-> None]
              ELSE [pc |-> "store", database_name |-> n, table_id |-> t,
                    row |-> Get(built.row)]]
    /\ interleaved' = (interleaved \/ InAddRow # {})
    /\ UNCHANGED <<databases, request, response, issued>>

AddRowStore(th) ==
    /\ calls[th].pc = "store"
    /\ LET n == calls[th].database_name
           t == calls[th].table_id
       IN databases' = PutTable(databases, n,
                                add_row_store(TableOf(databases, n, t), calls[th].row))
    /\ calls' = [calls EXCEPT ![th].pc = "increment"]
    /\ UNCHANGED <<request, response, issued, interleaved>>

\* the counter moves and the row is returned
AddRowIncrement(th) ==
    /\ calls[th].pc = "increment"
    /\ LET n == calls[th].database_name
           t == calls[th].table_id
       IN databases' = PutTable(databases, n, add_row_increment(TableOf(databases, n, t)))
    /\ calls' = [calls EXCEPT ![th] =
                   [pc |-> "done", database_name |-> calls[th].database_name,
                    table_id |-> calls[th].table_id,
                    error |-> NoError, ret |-> Some(calls[th].row)]]
    /\ UNCHANGED <<request, response, issued, interleaved>>

\* the caller takes the result; the thread is free for another call
AddRowReturn(th) ==
    /\ calls[th].pc = "done"
    /\ calls' = [calls EXCEPT ![th] = NoCall]
    /\ UNCHANGED <<databases, request, response, issued, interleaved>>

NextRace ==
    \/ \E th \in Threads, n \in DbNames, t \in TableIds, cells \in RaceCells :
          AddRowBuild(th, n, t, cells)
    \/ \E th \in Threads : AddRowStore(th)
    \/ \E th \in Threads : AddRowIncrement(th)
    \/ \E th \in Threads : AddRowReturn(th)

SpecRace == InitRace /\ [][NextRace]_vars

(***************************************************************************)
(* C20: add_row takes no lock around reading next_row_id to build the row, *)
(* storing the row under next_row_id and incrementing next_row_id.  When   *)
(* two calls on one table alternate at these steps, both can return rows   *)
(* with the same id while only one of the two rows is stored; when every   *)
(* call runs to its end before the next begins, two calls return rows      *)
(* with different ids and both rows are stored.                            *)
(***************************************************************************)
\* both threads have a row to return, for the same table
BothReturned ==
    /\ \A th \in Threads : calls[th].pc = "done" /\ calls[th].error = NoError
    /\ calls[1].database_name = calls[2].database_name
    /\ calls[1].table_id = calls[2].table_id

Stored(th) ==
    \E i \in DOMAIN RowsOf(TableOf(databases, calls[th].database_name, calls[th].table_id)) :
        RowsOf(TableOf(databases, calls[th].database_name, calls[th].table_id))[i]
          = Get(calls[th].ret)

\* the three steps run with nothing in between do what add_row does
UninterruptedIsAddRow(T, cells) ==
    LET built == add_row_build(T, cells)
    IN IF built.error # NoError
         THEN add_row(T, cells) = [error |-> built.error, self |-> T, ret |-> None]
         ELSE add_row(T, cells) =
                [error |-> NoError,
                 self |-> add_row_increment(add_row_store(T, Get(built.row))),
                 ret |-> Get(built.row)]

C20_SerializedCallsKeepBothRows ==
    (BothReturned /\ ~interleaved) =>
        /\ Get(calls[1].ret).id # Get(calls[2].ret).id
        /\ Stored(1) /\ Stored(2)
        /\ \A cells \in RaceCells :
             UninterruptedIsAddRow(
                TableOf(databases, calls[1].database_name, calls[1].table_id), cells)

\* the two calls alternated: both return a row with id 0, the rows differ,
\* and the table holds the second thread's row alone
C20_Witness ==
    /\ BothReturned
    /\ interleaved
    /\ Get(calls[1].ret).id = 0 /\ Get(calls[2].ret).id = 0
    /\ Get(calls[1].ret).cells # Get(calls[2].ret).cells
    /\ ~Stored(1) /\ Stored(2)
    /\ Len(RowsOf(TableOf(databases, calls[1].database_name, calls[1].table_id))) = 1

====
